---- MODULE Spec2Model ----
(***************************************************************************)
(* Model of ReceiptService (receipt.service.ts): the extraction pipeline   *)
(* extractReceiptDetails, the schema validator validateExtractedData, the  *)
(* in-memory receipt map and its two lookups, and the uploads directory    *)
(* ensure started by the constructor.                                      *)
(*                                                                         *)
(* Text is a sequence of symbols.  A symbol is one character (a backtick,   *)
(* the line feed LF, the blank SP, a JSON punctuation mark, a letter) or a *)
(* chunk of characters that no regular expression of the sanitizer can     *)
(* match a part of ("json", "python", "2024-01-15", a number literal).     *)
(***************************************************************************)
EXTENDS Integers, Sequences, FiniteSets, TLC

\* ------------------------------------------------------------------ bounds
\* How many extractReceiptDetails invocations one behaviour holds.
MaxInvocations == 2
\* Longest string content (in symbols) of the generated JSON values of
\* ParseSpec.
MaxStrLen == 4

\* ----------------------------------------------------------------- symbols
BT == "<BT>"
LF == "<LF>"
SP == "<SP>"
DQ == "<DQ>"
WhiteSpace == {LF, SP}

\* Characters of a chunk symbol; every other symbol is one character.
ChunkLen(sym) ==
  CASE sym = "json" -> 4
    [] sym = "python" -> 6
    [] sym = "INVALID" -> 7
    [] sym = "2024-01-15" -> 10
    [] sym = "Test Store" -> 10
    [] sym = "Coffee" -> 6
    [] OTHER -> 1

RECURSIVE StrLength(_)
\* String.prototype.length of a symbol sequence.
StrLength(s) == IF s = <<>> THEN 0 ELSE ChunkLen(Head(s)) + StrLength(Tail(s))

\* ------------------------------------------------------------- JSON values
\* What JSON.parse can return, tagged by kind.
JStr(s) == [k |-> "str", v |-> s]
JNum(n) == [k |-> "num", v |-> n]
JNull == [k |-> "null", v |-> "null"]
JArr(es) == [k |-> "arr", v |-> es]
\* An object is its members in text order, each <<key, value>>.
JObj(ms) == [k |-> "obj", v |-> ms]
\* The value of reading a property that is not there.
Undefined == [k |-> "undefined", v |-> "undefined"]

NumTokens == {"0", "1.35", "4.5", "14.84"}

RECURSIVE JoinWith(_, _)
\* The texts of ts, separated by sep.
JoinWith(ts, sep) ==
  IF ts = <<>> THEN <<>>
  ELSE IF Len(ts) = 1 THEN ts[1]
  ELSE ts[1] \o sep \o JoinWith(Tail(ts), sep)

RECURSIVE Stringify(_)
\* JSON.stringify of a JSON value (no indentation).
Stringify(j) ==
  CASE j.k = "str" -> <<DQ>> \o j.v \o <<DQ>>
    [] j.k = "num" -> <<j.v>>
    [] j.k = "null" -> <<"null">>
    [] j.k = "undefined" -> <<"undefined">>
    [] j.k = "arr" ->
         <<"[">> \o JoinWith([i \in 1..Len(j.v) |-> Stringify(j.v[i])], <<",">>) \o <<"]">>
    [] j.k = "obj" ->
         <<"{">> \o JoinWith([i \in 1..Len(j.v) |->
                     <<DQ>> \o j.v[i][1] \o <<DQ, ":">> \o Stringify(j.v[i][2])], <<",">>)
               \o <<"}">>

\* --------------------------------------------------------------- sanitizer
RECURSIVE StripFenceJson(_)
\* The first replace of cleanedText: every run of three backticks followed
\* by "json", with the line feed after it when there is one, is removed,
\* leftmost first.
StripFenceJson(t) ==
  IF t = <<>> THEN <<>>
  ELSE IF Len(t) >= 4 /\ t[1] = BT /\ t[2] = BT /\ t[3] = BT /\ t[4] = "json"
    THEN IF Len(t) >= 5 /\ t[5] = LF
           THEN StripFenceJson(SubSeq(t, 6, Len(t)))
           ELSE StripFenceJson(SubSeq(t, 5, Len(t)))
    ELSE <<Head(t)>> \o StripFenceJson(Tail(t))

RECURSIVE StripFence(_)
\* The second replace of cleanedText: every run of three backticks, with
\* the line feed after it when there is one, is removed, leftmost first.
StripFence(t) ==
  IF t = <<>> THEN <<>>
  ELSE IF Len(t) >= 3 /\ t[1] = BT /\ t[2] = BT /\ t[3] = BT
    THEN IF Len(t) >= 4 /\ t[4] = LF
           THEN StripFence(SubSeq(t, 5, Len(t)))
           ELSE StripFence(SubSeq(t, 4, Len(t)))
    ELSE <<Head(t)>> \o StripFence(Tail(t))

RECURSIVE TrimStart(_)
TrimStart(t) ==
  IF t # <<>> /\ Head(t) \in WhiteSpace THEN TrimStart(Tail(t)) ELSE t

RECURSIVE TrimEnd(_)
TrimEnd(t) ==
  IF t # <<>> /\ t[Len(t)] \in WhiteSpace THEN TrimEnd(SubSeq(t, 1, Len(t) - 1)) ELSE t

\* String.prototype.trim.
Trim(t) == TrimEnd(TrimStart(t))

\* CleanText without its second replace: only json fences are stripped.
CleanTextJsonFenceOnly(text) == Trim(StripFenceJson(text))

\* cleanedText of extractReceiptDetails.
CleanText(text) == Trim(StripFence(StripFenceJson(text)))

\* ------------------------------------------------------------- JSON.parse
ParseFail == [ok |-> FALSE, v |-> JNull, i |-> 0]
ParseOk(val, next) == [ok |-> TRUE, v |-> val, i |-> next]

RECURSIVE SkipWs(_, _)
\* The first position from i on that holds no white space.
SkipWs(t, i) == IF i <= Len(t) /\ t[i] \in WhiteSpace THEN SkipWs(t, i + 1) ELSE i

RECURSIVE CloseQuote(_, _)
\* The position of the first double quote from i on, 0 when there is none
\* or a raw line feed comes first.
CloseQuote(t, i) ==
  IF i > Len(t) \/ t[i] = LF THEN 0
  ELSE IF t[i] = DQ THEN i
  ELSE CloseQuote(t, i + 1)

\* A string literal whose opening quote is at i.
ParseString(t, i) ==
  LET c == CloseQuote(t, i + 1)
  IN IF c = 0 THEN ParseFail ELSE ParseOk(SubSeq(t, i + 1, c - 1), c + 1)

RECURSIVE ParseValue(_, _)
RECURSIVE ParseElements(_, _, _)
RECURSIVE ParseMembers(_, _, _)

\* The JSON value that starts at or after position i.
ParseValue(t, i) ==
  LET j == SkipWs(t, i)
  IN IF j > Len(t) THEN ParseFail
     ELSE CASE t[j] = DQ ->
                 LET s == ParseString(t, j)
                 IN IF s.ok THEN ParseOk(JStr(s.v), s.i) ELSE ParseFail
            [] t[j] \in NumTokens -> ParseOk(JNum(t[j]), j + 1)
            [] t[j] = "null" -> ParseOk(JNull, j + 1)
            [] t[j] = "[" ->
                 LET c == SkipWs(t, j + 1)
                 IN IF c <= Len(t) /\ t[c] = "]" THEN ParseOk(JArr(<<>>), c + 1)
                    ELSE ParseElements(t, j + 1, <<>>)
            [] t[j] = "{" ->
                 LET c == SkipWs(t, j + 1)
                 IN IF c <= Len(t) /\ t[c] = "}" THEN ParseOk(JObj(<<>>), c + 1)
                    ELSE ParseMembers(t, j + 1, <<>>)
            [] OTHER -> ParseFail

\* One element at i, then "," and more elements, or "]".
ParseElements(t, i, acc) ==
  LET e == ParseValue(t, i)
  IN IF ~e.ok THEN ParseFail
     ELSE LET c == SkipWs(t, e.i)
          IN IF c > Len(t) THEN ParseFail
             ELSE IF t[c] = "," THEN ParseElements(t, c + 1, Append(acc, e.v))
             ELSE IF t[c] = "]" THEN ParseOk(JArr(Append(acc, e.v)), c + 1)
             ELSE ParseFail

\* One "key": value at i, then "," and more members, or "}".
ParseMembers(t, i, acc) ==
  LET q == SkipWs(t, i)
  IN IF q > Len(t) \/ t[q] # DQ THEN ParseFail
     ELSE LET key == ParseString(t, q)
          IN IF ~key.ok THEN ParseFail
             ELSE LET colon == SkipWs(t, key.i)
                  IN IF colon > Len(t) \/ t[colon] # ":" THEN ParseFail
                     ELSE LET e == ParseValue(t, colon + 1)
                          IN IF ~e.ok THEN ParseFail
                             ELSE LET c == SkipWs(t, e.i)
                                      ms == Append(acc, <<key.v, e.v>>)
                                  IN IF c > Len(t) THEN ParseFail
                                     ELSE IF t[c] = "," THEN ParseMembers(t, c + 1, ms)
                                     ELSE IF t[c] = "}" THEN ParseOk(JObj(ms), c + 1)
                                     ELSE ParseFail

\* JSON.parse(t): [ok |-> TRUE, v |-> value], or ok FALSE for a SyntaxError.
JSONParse(t) ==
  LET r == ParseValue(t, 1)
  IN IF r.ok /\ SkipWs(t, r.i) > Len(t) THEN [ok |-> TRUE, v |-> r.v]
     ELSE [ok |-> FALSE, v |-> JNull]

\* The parse stage: the body of the inner try of extractReceiptDetails.
ParseStage(text) == JSONParse(CleanText(text))

\* -------------------------------------------------- validateExtractedData
Key(name) == <<name>>

RECURSIVE LastMember(_, _, _)
\* The value of the last of the first n members of ms whose key is key.
LastMember(ms, key, n) ==
  IF n = 0 THEN Undefined
  ELSE IF ms[n][1] = key THEN ms[n][2]
  ELSE LastMember(ms, key, n - 1)

\* data.name for a value that is not null: the member of an object, and
\* undefined on every other kind of value.
Get(data, name) ==
  IF data.k = "obj" THEN LastMember(data.v, Key(name), Len(data.v)) ELSE Undefined

\* The typeof operator.
TypeOf(j) ==
  CASE j.k = "str" -> "string"
    [] j.k = "num" -> "number"
    [] j.k = "undefined" -> "undefined"
    [] OTHER -> "object"

\* The values the && of validateExtractedData stops at.
Falsy(j) ==
  \/ j.k \in {"null", "undefined"}
  \/ j.k = "num" /\ j.v = "0"
  \/ j.k = "str" /\ j.v = <<>>

\* The callback of receipt_items.every: reading a property of null throws.
ItemCheck(item) ==
  IF item.k = "null" THEN "TypeError"
  ELSE IF TypeOf(Get(item, "item_name")) = "string"
          /\ TypeOf(Get(item, "item_cost")) = "number"
    THEN "true"
  ELSE "false"

RECURSIVE Every(_, _)
\* Array.prototype.every from element i on: stops at the first element
\* whose callback is not true.
Every(items, i) ==
  IF i > Len(items) THEN "true"
  ELSE LET c == ItemCheck(items[i])
       IN IF c = "true" THEN Every(items, i + 1) ELSE c

\* validateExtractedData(data): "true", "false", or "TypeError" when the
\* evaluation throws.  The conjuncts are evaluated in the order written.
validateExtractedData(data) ==
  IF Falsy(data) THEN "false"
  ELSE IF TypeOf(Get(data, "date")) # "string" THEN "false"
  ELSE IF TypeOf(Get(data, "currency")) # "string" THEN "false"
  ELSE IF TypeOf(Get(data, "vendor_name")) # "string" THEN "false"
  ELSE IF Get(data, "receipt_items").k # "arr" THEN "false"
  ELSE LET items == Every(Get(data, "receipt_items").v, 1)
       IN IF items # "true" THEN items
          ELSE IF TypeOf(Get(data, "tax")) # "number" THEN "false"
          ELSE IF TypeOf(Get(data, "total")) # "number" THEN "false"
          ELSE IF StrLength(Get(data, "currency").v) # 3 THEN "false"
          ELSE "true"

\* ------------------------------------------------------------------ paths
\* A path is its segments, each a symbol sequence.
RECURSIVE SplitPath(_, _, _)
\* The segments of the text t, cut at every "/": done holds the finished
\* segments and cur the one being read.
SplitPath(t, done, cur) ==
  IF t = <<>> THEN Append(done, cur)
  ELSE IF Head(t) = "/" THEN SplitPath(Tail(t), Append(done, cur), <<>>)
  ELSE SplitPath(Tail(t), done, Append(cur, Head(t)))

RECURSIVE NormalizeSegs(_, _)
\* path.normalize on segments: "." and empty segments are dropped and ".."
\* drops the segment before it.
NormalizeSegs(segs, acc) ==
  IF segs = <<>> THEN acc
  ELSE LET h == Head(segs)
       IN IF h = <<>> \/ h = <<".">> THEN NormalizeSegs(Tail(segs), acc)
          ELSE IF h = <<"..">>
            THEN NormalizeSegs(Tail(segs),
                               IF acc = <<>> THEN acc ELSE SubSeq(acc, 1, Len(acc) - 1))
          ELSE NormalizeSegs(Tail(segs), Append(acc, h))

\* path.join(dir, name) for an absolute, normalised dir.
PathJoin(dir, name) == NormalizeSegs(dir \o SplitPath(name, <<>>, <<>>), <<>>)

\* path.dirname of a normalised path.
Dirname(path) == SubSeq(path, 1, Len(path) - 1)

Cwd == << <<"cwd">> >>
\* this.uploadsDir
uploadsDir == PathJoin(Cwd, <<"uploads">>)

\* ---------------------------------------------------------------- uploads
allowedTypes == {"image/jpeg", "image/jpg", "image/png", "image/webp"}

\* The files the inbound trigger hands over: Express.Multer.File reduced to
\* originalname and mimetype (the buffer is the upload's own).
Uploads ==
  << [originalname |-> <<"receipt", ".jpg">>, mimetype |-> "image/jpeg"],
     [originalname |-> <<"receipt", ".jpg">>, mimetype |-> "image/jpg"],
     [originalname |-> <<"receipt", ".png">>, mimetype |-> "image/png"],
     [originalname |-> <<"x", "/", "..", "/", "receipt", ".webp">>, mimetype |-> "image/webp"],
     [originalname |-> <<"receipt", ".txt">>, mimetype |-> "text/plain"],
     [originalname |-> <<"receipt", ".jpg">>, mimetype |-> "application/pdf"] >>

\* FileValidator with application/pdf let through as well.
FileValidatorPdf(mimetype) == mimetype \in allowedTypes \cup {"application/pdf"}

\* FileValidator without image/webp.
FileValidatorNoWebp(mimetype) == mimetype \in allowedTypes \ {"image/webp"}

\* FileValidator without the image/jpg alias.
FileValidatorNoJpg(mimetype) == mimetype \in allowedTypes \ {"image/jpg"}

\* if (!allowedTypes.includes(file.mimetype))
FileValidator(mimetype) == mimetype \in allowedTypes

\* The fileFilter of the controller's FileInterceptor, with its own copy of
\* the allowed types.
fileFilter(mimetype) ==
  mimetype \in {"image/jpeg", "image/jpg", "image/png", "image/webp"}

\* Uuid handing out one identifier for the whole process.
UuidFixed(n) == <<"uuid", "1">>

\* uuidv4(): the n-th identifier generated by this process.
Uuid(n) == <<"uuid", ToString(n)>>

\* const fileName
ComposeFileName(receiptId, originalname) == receiptId \o <<"_">> \o originalname

\* const filePath
FilePath(fileName) == PathJoin(uploadsDir, fileName)

\* image_url of the receipt
ImageUrl(fileName) == <<"/", "uploads", "/">> \o fileName

\* ------------------------------------------------------------ AI replies
Member(name, val) == <<Key(name), val>>
CoffeeItem == JObj(<<Member("item_name", JStr(<<"Coffee">>)), Member("item_cost", JNum("4.5"))>>)

\* A line item with a member the schema does not name.
TippedItem ==
  JObj(<<Member("item_name", JStr(<<"Coffee">>)), Member("item_cost", JNum("4.5")),
         Member("tip", JNum("1.35"))>>)

\* The AI's JSON for a receipt with the given currency, vendor and items.
ReceiptJson(currency, vendor, items) ==
  JObj(<<Member("date", JStr(<<"2024-01-15">>)),
         Member("currency", JStr(currency)),
         Member("vendor_name", JStr(vendor)),
         Member("receipt_items", JArr(items)),
         Member("tax", JNum("1.35")),
         Member("total", JNum("14.84"))>>)

USD == <<"U", "S", "D">>
Fence == <<BT, BT, BT>>

\* What response.text() can return: the AI's text (body) and how the AI
\* wrapped it: not at all, or between an opening fence line with the given
\* language tag and a closing fence line.
AiReplies ==
  << [wrap |-> "none", tag |-> <<>>,
      body |-> Stringify(ReceiptJson(USD, <<"Test Store">>, <<CoffeeItem>>))],
     [wrap |-> "fence", tag |-> <<"json">>,
      body |-> Stringify(ReceiptJson(USD, <<"Test Store">>, <<CoffeeItem>>))],
     [wrap |-> "fence", tag |-> <<>>,
      body |-> Stringify(ReceiptJson(USD, <<"Test Store">>, <<>>))],
     [wrap |-> "none", tag |-> <<>>,
      body |-> <<"invalid", SP, "json", SP, "response">>],
     [wrap |-> "none", tag |-> <<>>,
      body |-> Stringify(JObj(<<Member("date", JStr(<<"2024-01-15">>))>>))],
     [wrap |-> "none", tag |-> <<>>,
      body |-> Stringify(ReceiptJson(<<"INVALID">>, <<"Test Store">>, <<CoffeeItem>>))],
     [wrap |-> "none", tag |-> <<>>,
      body |-> Stringify(ReceiptJson(USD, <<"Test Store">>,
                  <<JObj(<<Member("item_name", JStr(<<"Coffee">>))>>),
                    JObj(<<Member("item_cost", JNum("4.5"))>>)>>))],
     [wrap |-> "none", tag |-> <<>>,
      body |-> Stringify(ReceiptJson(USD, <<"Test Store">>, <<CoffeeItem, JNull>>))],
     [wrap |-> "none", tag |-> <<>>,
      body |-> Stringify(ReceiptJson(USD, Fence \o <<"Test Store">>, <<CoffeeItem>>))],
     [wrap |-> "fence", tag |-> <<"python">>,
      body |-> Stringify(ReceiptJson(USD, <<"Test Store">>, <<CoffeeItem>>))],
     [wrap |-> "none", tag |-> <<>>, body |-> <<"null">>],
     [wrap |-> "none", tag |-> <<>>,
      body |-> Stringify(JObj(ReceiptJson(USD, <<"Test Store">>, <<TippedItem>>).v
                                \o <<Member("tip", JNum("4.5"))>>))] >>

\* The text of a reply.
ReplyText(reply) ==
  IF reply.wrap = "fence"
    THEN Fence \o reply.tag \o <<LF>> \o reply.body \o <<LF>> \o Fence
    ELSE reply.body

\* ------------------------------------------------------------- exceptions
BadRequestException(msg) == [class |-> "BadRequestException", message |-> msg]
InternalServerErrorException(msg) ==
  [class |-> "InternalServerErrorException", message |-> msg]
\* Any other thrown value: a rejected fs or gateway promise, a TypeError.
OtherError(msg) == [class |-> "Error", message |-> msg]
NoFault == [class |-> "none", message |-> ""]

ClientFault == BadRequestException("Only .jpg, .jpeg, .png, and .webp files are allowed")
NoFileFault == BadRequestException("No file uploaded")
\* The error the controller's fileFilter hands to its callback.
FilterFault == BadRequestException("Only .jpg, .jpeg, .png, and .webp files are allowed")
AiFormatFault == InternalServerErrorException("AI model returned invalid response format")
AiContentFault == InternalServerErrorException("AI model returned incomplete or invalid data")
GenericFault == InternalServerErrorException("Failed to process receipt image")

\* OuterCatch wrapping every error, the service's own as well.
OuterCatchAlwaysGeneric(error) == GenericFault

\* OuterCatch rethrowing every error as it is.
OuterCatchRethrow(error) == error

\* The outer catch of extractReceiptDetails: the fault the caller gets for
\* an error thrown inside the try block.
OuterCatch(error) ==
  IF error.class \in {"BadRequestException", "InternalServerErrorException"}
    THEN error
    ELSE GenericFault

\* -------------------------------------------------------------- the map
\* receiptsData is a Map: its entries in insertion order.
RECURSIVE MapIndex(_, _, _)
\* The position of key among the first n entries of m, 0 when it is absent.
MapIndex(m, key, n) ==
  IF n = 0 THEN 0
  ELSE IF m[n].key = key THEN n
  ELSE MapIndex(m, key, n - 1)

\* Map.prototype.set: a present key keeps its place and gets the new value.
MapSet(m, key, value) ==
  LET at == MapIndex(m, key, Len(m))
  IN IF at = 0 THEN Append(m, [key |-> key, value |-> value])
     ELSE [m EXCEPT ![at] = [key |-> key, value |-> value]]

\* Map.prototype.get: <<value>>, or <<>> for undefined.
MapGet(m, key) ==
  LET at == MapIndex(m, key, Len(m))
  IN IF at = 0 THEN <<>> ELSE <<m[at].value>>

\* StoreReceipt keyed by the image reference instead of the identifier.
StoreReceiptByUrl(m, receiptId, receipt) == MapSet(m, receipt.image_url, receipt)

\* StoreReceipt keyed by the receipt's date instead of the identifier.
StoreReceiptByDate(m, receiptId, receipt) == MapSet(m, receipt.date.v, receipt)

\* receiptsData.set(receiptId, receiptResponse)
StoreReceipt(m, receiptId, receipt) == MapSet(m, receiptId, receipt)

\* const receiptResponse
ReceiptResponse(receiptId, extractedData, fileName) ==
  [id |-> receiptId,
   date |-> Get(extractedData, "date"),
   currency |-> Get(extractedData, "currency"),
   vendor_name |-> Get(extractedData, "vendor_name"),
   receipt_items |-> Get(extractedData, "receipt_items"),
   tax |-> Get(extractedData, "tax"),
   total |-> Get(extractedData, "total"),
   image_url |-> ImageUrl(fileName)]

\* The error thrown between response.text() and the return, NoFault when
\* none is: the inner try and catch, then the validation.
ThrownAfterText(text) ==
  LET parsed == ParseStage(text)
  IN IF ~parsed.ok THEN AiFormatFault
     ELSE LET valid == validateExtractedData(parsed.v)
          IN IF valid = "false" THEN AiContentFault
             ELSE IF valid = "TypeError"
               THEN OtherError("Cannot read properties of null")
             ELSE NoFault

\* What the code after response.text() does with each reply of AiReplies:
\* whether the parse stage succeeds, the extractedData it yields and the
\* error thrown before the return (NoFault when none is).
AfterText ==
  [r \in 1..Len(AiReplies) |->
     [parsed |-> ParseStage(ReplyText(AiReplies[r])).ok,
      extractedData |-> ParseStage(ReplyText(AiReplies[r])).v,
      thrown |-> ThrownAfterText(ReplyText(AiReplies[r]))]]

\* ------------------------------------------------------------------ state
VARIABLES
  inv,          \* the extractReceiptDetails invocations, by slot
  receiptsData, \* the service's Map of receipts
  nextUuid,     \* how many identifiers uuidv4 has handed out, plus one
  files,        \* the files on disk: [path, owner], owner the writing slot
  dirs,         \* the directories on disk
  ensurePc,     \* where the constructor's ensureUploadsDir() stands
  service,      \* the ReceiptService instance: not constructed, ready, or
                \* the constructor threw
  apiKey,       \* process.env.GEMINI_API_KEY: <<>> when unset, else <<value>>
  sample,       \* ParseSpec: the JSON value whose text is parsed
  parsedPlain,  \* ParseSpec: <<the parse stage's result on the bare text>>
  parsedFenced, \* ParseSpec: <<its result on the text in a json fence>>
  verdict,      \* ValidateSpec: <<what validateExtractedData(sample) gave>>
  parsedTagged  \* ParseSpec: <<[tag, result]>>, the parse stage's result on
                \* the text in a fence with that language tag

serviceVars == <<inv, receiptsData, nextUuid, files, dirs, ensurePc, service, apiKey>>
parseVars == <<sample, parsedPlain, parsedFenced, verdict, parsedTagged>>
vars == <<inv, receiptsData, nextUuid, files, dirs, ensurePc, service, apiKey,
          sample, parsedPlain, parsedFenced, verdict, parsedTagged>>

Slots == 1..MaxInvocations

\* An invocation not yet made.  stage is the stage of the pipeline the
\* invocation is at or failed at; write and gateway are where its
\* fs.writeFile and its model.generateContent call stand.
Idle ==
  [pc |-> "idle", stage |-> "", upload |-> 0, receiptId |-> <<>>, fileName |-> <<>>,
   write |-> "none", gateway |-> "none",
   nWrites |-> 0, nCalls |-> 0, nSets |-> 0, reply |-> 0,
   fault |-> NoFault, returned |-> <<>>]

\* The values of process.env.GEMINI_API_KEY: unset, empty, and a key.
ApiKeys == {<<>>, <<"">>, <<"test-api-key">>}

NotConstructed == [state |-> "none", error |-> ""]
Ready == [state |-> "ready", error |-> ""]
ConstructorThrew(msg) == [state |-> "failed", error |-> msg]

\* The state before the service is constructed: the field initialisers give
\* the empty Map, the environment has the key or not, and the uploads
\* directory may or may not exist.
Init ==
  /\ inv = [i \in Slots |-> Idle]
  /\ receiptsData = <<>>
  /\ nextUuid = 1
  /\ files = {}
  /\ dirs \in {{Cwd}, {Cwd, uploadsDir}}
  /\ ensurePc = "idle"
  /\ service = NotConstructed
  /\ apiKey \in ApiKeys
  /\ sample = JNull
  /\ parsedPlain = <<>>
  /\ parsedFenced = <<>>
  /\ verdict = <<>>
  /\ parsedTagged = <<>>

\* The constructor with the key check left out.
ConstructUnchecked ==
  /\ service = NotConstructed
  /\ service' = Ready
  /\ ensurePc' = "access"
  /\ UNCHANGED <<inv, receiptsData, nextUuid, files, dirs, apiKey>>
  /\ UNCHANGED parseVars

\* new ReceiptService(): !apiKey holds for an unset and for an empty key
\* and the constructor throws; otherwise it sets up the model and calls
\* ensureUploadsDir(), which runs up to its fs.access and is not awaited.
Construct ==
  /\ service = NotConstructed
  /\ IF apiKey = <<>> \/ apiKey = <<"">>
       THEN /\ service' = ConstructorThrew("GEMINI_API_KEY environment variable is required")
            /\ UNCHANGED ensurePc
       ELSE /\ service' = Ready
            /\ ensurePc' = "access"
  /\ UNCHANGED <<inv, receiptsData, nextUuid, files, dirs, apiKey>>
  /\ UNCHANGED parseVars

\* ensureUploadsDir: fs.access settles; a missing directory goes on to mkdir.
EnsureAccess ==
  /\ ensurePc = "access"
  /\ ensurePc' = IF uploadsDir \in dirs THEN "done" ELSE "mkdir"
  /\ UNCHANGED <<inv, receiptsData, nextUuid, files, dirs>>
  /\ UNCHANGED <<service, apiKey>>
  /\ UNCHANGED parseVars

\* ensureUploadsDir: fs.mkdir resolves.
EnsureMkdirResolves ==
  /\ ensurePc = "mkdir"
  /\ dirs' = dirs \cup {uploadsDir}
  /\ ensurePc' = "done"
  /\ UNCHANGED <<inv, receiptsData, nextUuid, files>>
  /\ UNCHANGED <<service, apiKey>>
  /\ UNCHANGED parseVars

\* ensureUploadsDir: fs.mkdir rejects; nothing awaits the promise.
EnsureMkdirRejects ==
  /\ ensurePc = "mkdir"
  /\ ensurePc' = "failed"
  /\ UNCHANGED <<inv, receiptsData, nextUuid, files, dirs>>
  /\ UNCHANGED <<service, apiKey>>
  /\ UNCHANGED parseVars

\* extractReceiptDetails(file) up to its first await: the file type check,
\* the identifier, the file name and the call of fs.writeFile.
Extract(i, u) ==
  /\ service = Ready
  /\ inv[i].pc = "idle"
  /\ \A j \in Slots : j < i => inv[j].pc # "idle"
  /\ IF ~FileValidator(Uploads[u].mimetype)
       THEN /\ inv' = [inv EXCEPT ![i] = [@ EXCEPT !.pc = "failed", !.stage = "Validating",
                                                   !.upload = u, !.fault = ClientFault]]
            /\ UNCHANGED nextUuid
       ELSE /\ inv' = [inv EXCEPT ![i] =
                 [@ EXCEPT !.pc = "writing", !.stage = "Storing", !.upload = u,
                           !.receiptId = Uuid(nextUuid),
                           !.fileName = ComposeFileName(Uuid(nextUuid), Uploads[u].originalname),
                           !.write = "pending", !.nWrites = @ + 1]]
            /\ nextUuid' = nextUuid + 1
  /\ UNCHANGED <<receiptsData, files, dirs, ensurePc>>
  /\ UNCHANGED <<service, apiKey>>
  /\ UNCHANGED parseVars

\* The controller's handler passing a missing file on to the service, whose
\* read of file.mimetype then throws.
ControllerExtractUnchecked(i, f) ==
  IF f = 0
    THEN /\ service = Ready
         /\ inv[i].pc = "idle"
         /\ \A j \in Slots : j < i => inv[j].pc # "idle"
         /\ inv' = [inv EXCEPT ![i] =
              [@ EXCEPT !.pc = "failed", !.stage = "Validating",
                        !.fault = OtherError("Cannot read properties of undefined")]]
         /\ UNCHANGED <<receiptsData, nextUuid, files, dirs, ensurePc>>
         /\ UNCHANGED <<service, apiKey>>
         /\ UNCHANGED parseVars
    ELSE Extract(i, f)

\* POST receipt/extract-receipt-details with upload f, 0 when the request
\* has no file: the interceptor's fileFilter, then the handler, which
\* throws on a missing file and otherwise calls the service.  An
\* invocation that fails here has the stage "Endpoint": the service's
\* extractReceiptDetails is not called.
ControllerExtract(i, f) ==
  IF f # 0 /\ fileFilter(Uploads[f].mimetype)
    THEN Extract(i, f)
    ELSE /\ service = Ready
         /\ inv[i].pc = "idle"
         /\ \A j \in Slots : j < i => inv[j].pc # "idle"
         /\ inv' = [inv EXCEPT ![i] =
              [@ EXCEPT !.pc = "failed", !.stage = "Endpoint", !.upload = f,
                        !.fault = IF f = 0 THEN NoFileFault ELSE FilterFault]]
         /\ UNCHANGED <<receiptsData, nextUuid, files, dirs, ensurePc>>
         /\ UNCHANGED <<service, apiKey>>
         /\ UNCHANGED parseVars

\* fs.writeFile resolves: the file is on disk, and the invocation goes on to
\* build the prompt and call model.generateContent.
WriteFileResolves(i) ==
  /\ inv[i].pc = "writing"
  /\ Dirname(FilePath(inv[i].fileName)) \in dirs
  /\ files' = {f \in files : f.path # FilePath(inv[i].fileName)}
                \cup {[path |-> FilePath(inv[i].fileName), owner |-> i]}
  /\ inv' = [inv EXCEPT ![i] = [@ EXCEPT !.pc = "inferring", !.stage = "Inferring",
                                         !.write = "resolved",
                                         !.gateway = "pending", !.nCalls = @ + 1]]
  /\ UNCHANGED <<receiptsData, nextUuid, dirs, ensurePc>>
  /\ UNCHANGED <<service, apiKey>>
  /\ UNCHANGED parseVars

\* WriteFileRejects with the rejection ignored: the invocation goes on to
\* the gateway call as if the write had resolved.
WriteFileRejectsIgnored(i) ==
  /\ inv[i].pc = "writing"
  /\ inv' = [inv EXCEPT ![i] = [@ EXCEPT !.pc = "inferring", !.stage = "Inferring",
                                         !.write = "rejected",
                                         !.gateway = "pending", !.nCalls = @ + 1]]
  /\ UNCHANGED <<receiptsData, nextUuid, files, dirs, ensurePc>>
  /\ UNCHANGED <<service, apiKey>>
  /\ UNCHANGED parseVars

\* WriteFileRejects with the rejection swallowed and the invocation left
\* waiting for a write that has already failed.
WriteFileRejectsHangs(i) ==
  /\ inv[i].pc = "writing"
  /\ inv[i].write = "pending"
  /\ inv' = [inv EXCEPT ![i] = [@ EXCEPT !.write = "rejected"]]
  /\ UNCHANGED <<receiptsData, nextUuid, files, dirs, ensurePc>>
  /\ UNCHANGED <<service, apiKey>>
  /\ UNCHANGED parseVars

\* fs.writeFile rejects (no such directory, a disk or permission error).
WriteFileRejects(i) ==
  /\ inv[i].pc = "writing"
  /\ inv' = [inv EXCEPT ![i] = [@ EXCEPT !.pc = "failed", !.write = "rejected",
                                         !.fault = OuterCatch(OtherError("File system error"))]]
  /\ UNCHANGED <<receiptsData, nextUuid, files, dirs, ensurePc>>
  /\ UNCHANGED <<service, apiKey>>
  /\ UNCHANGED parseVars

\* GenerateContentRejects with the written image removed on the way out.
GenerateContentRejectsRollback(i) ==
  /\ inv[i].pc = "inferring"
  /\ inv' = [inv EXCEPT ![i] = [@ EXCEPT !.pc = "failed", !.gateway = "rejected",
                                         !.fault = OuterCatch(OtherError("AI service error"))]]
  /\ files' = {f \in files : f.path # FilePath(inv[i].fileName)}
  /\ UNCHANGED <<receiptsData, nextUuid, dirs, ensurePc>>
  /\ UNCHANGED <<service, apiKey>>
  /\ UNCHANGED parseVars

\* GenerateContentRejects with the call made again after a rejection.
GenerateContentRejectsRetry(i) ==
  /\ inv[i].pc = "inferring"
  /\ inv' = [inv EXCEPT ![i] = [@ EXCEPT !.gateway = "pending", !.nCalls = @ + 1]]
  /\ UNCHANGED <<receiptsData, nextUuid, files, dirs, ensurePc>>
  /\ UNCHANGED <<service, apiKey>>
  /\ UNCHANGED parseVars

\* model.generateContent rejects, or reading the response throws.
GenerateContentRejects(i) ==
  /\ inv[i].pc = "inferring"
  /\ inv' = [inv EXCEPT ![i] = [@ EXCEPT !.pc = "failed", !.gateway = "rejected",
                                         !.fault = OuterCatch(OtherError("AI service error"))]]
  /\ UNCHANGED <<receiptsData, nextUuid, files, dirs, ensurePc>>
  /\ UNCHANGED <<service, apiKey>>
  /\ UNCHANGED parseVars

\* The replies the AI gives to each upload: any of AiReplies to the first
\* upload, and a valid receipt or text that is no JSON to the others.
RepliesTo(u) == IF u = 1 THEN 1..Len(AiReplies) ELSE {1, 4}

\* GenerateContentResolves with the receipt stored before the validation:
\* a reply that parses but fails the validation leaves its receipt behind.
GenerateContentResolvesStoresFirst(i, r) ==
  /\ inv[i].pc = "inferring"
  /\ r \in RepliesTo(inv[i].upload)
  /\ LET thrown == AfterText[r].thrown
         receipt == ReceiptResponse(inv[i].receiptId, AfterText[r].extractedData,
                                    inv[i].fileName)
     IN /\ receiptsData' = IF AfterText[r].parsed
                             THEN StoreReceipt(receiptsData, inv[i].receiptId, receipt)
                             ELSE receiptsData
        /\ IF thrown # NoFault
             THEN inv' = [inv EXCEPT ![i] =
                    [@ EXCEPT !.pc = "failed", !.gateway = "resolved", !.reply = r,
                              !.stage = IF AfterText[r].parsed THEN "ValidatingSchema"
                                                               ELSE "Sanitizing",
                              !.fault = OuterCatch(thrown)]]
             ELSE inv' = [inv EXCEPT ![i] =
                    [@ EXCEPT !.pc = "done", !.gateway = "resolved", !.reply = r,
                              !.stage = "Done", !.nSets = @ + 1,
                              !.returned = <<receipt>>]]
  /\ UNCHANGED <<nextUuid, files, dirs, ensurePc>>
  /\ UNCHANGED <<service, apiKey>>
  /\ UNCHANGED parseVars

\* model.generateContent resolves and response.text() returns the text of
\* reply r: parse, validate, build the receipt, store it and return it.
GenerateContentResolves(i, r) ==
  /\ inv[i].pc = "inferring"
  /\ r \in RepliesTo(inv[i].upload)
  /\ LET thrown == AfterText[r].thrown
         receipt == ReceiptResponse(inv[i].receiptId, AfterText[r].extractedData,
                                    inv[i].fileName)
     IN IF thrown # NoFault
          THEN /\ inv' = [inv EXCEPT ![i] =
                    [@ EXCEPT !.pc = "failed", !.gateway = "resolved", !.reply = r,
                              !.stage = IF AfterText[r].parsed THEN "ValidatingSchema"
                                                               ELSE "Sanitizing",
                              !.fault = OuterCatch(thrown)]]
               /\ UNCHANGED receiptsData
          ELSE /\ receiptsData' = StoreReceipt(receiptsData, inv[i].receiptId, receipt)
               /\ inv' = [inv EXCEPT ![i] =
                    [@ EXCEPT !.pc = "done", !.gateway = "resolved", !.reply = r,
                              !.stage = "Done", !.nSets = @ + 1,
                              !.returned = <<receipt>>]]
  /\ UNCHANGED <<nextUuid, files, dirs, ensurePc>>
  /\ UNCHANGED <<service, apiKey>>
  /\ UNCHANGED parseVars

\* The identifiers a caller can ask for: every identifier uuidv4 can have
\* handed out, one it has not, and one that is no uuid.
LookupIds == {Uuid(n) : n \in 1..(MaxInvocations + 1)} \cup {<<"non-existent-id">>}

\* getReceiptById falling back on the latest receipt for an unknown id.
getReceiptByIdOrLatest(id) ==
  IF MapGet(receiptsData, id) = <<>> /\ receiptsData # <<>>
    THEN <<receiptsData[Len(receiptsData)].value>>
    ELSE MapGet(receiptsData, id)

\* getReceiptById(id): <<receipt>>, or <<>> for undefined.
getReceiptById(id) == MapGet(receiptsData, id)

\* getAllReceipts()
getAllReceipts == [n \in 1..Len(receiptsData) |-> receiptsData[n].value]

Next ==
  \/ Construct
  \/ EnsureAccess
  \/ EnsureMkdirResolves
  \/ EnsureMkdirRejects
  \/ \E i \in Slots, u \in 1..Len(Uploads) : Extract(i, u)
  \/ \E i \in Slots, f \in 0..Len(Uploads) : ControllerExtract(i, f)
  \/ \E i \in Slots : WriteFileResolves(i)
  \/ \E i \in Slots : WriteFileRejects(i)
  \/ \E i \in Slots : GenerateContentRejects(i)
  \/ \E i \in Slots, r \in 1..Len(AiReplies) : GenerateContentResolves(i, r)

Spec == Init /\ [][Next]_vars

\* The promise of fs.writeFile settles, and so does the gateway's.
WriteSettles(i) == WriteFileResolves(i) \/ WriteFileRejects(i)
GatewaySettles(i) ==
  GenerateContentRejects(i) \/ \E r \in 1..Len(AiReplies) : GenerateContentResolves(i, r)

\* The uploads of the requests of FairSpec: none, one that every reply of
\* AiReplies is given to, and one of a type that is not allowed.
FairUploads == {0, 1, 5}

\* Next with the requests bringing the uploads of FairUploads.
FairNext == Next /\ \A i \in Slots : inv'[i].upload \in FairUploads

\* The service under the assumption that every image write and every
\* gateway call eventually returns or fails.  Nothing is assumed of the
\* arrival of requests, of the constructor or of ensureUploadsDir.
FairSpec ==
  /\ Init
  /\ [][FairNext]_vars
  /\ \A i \in Slots : WF_vars(WriteSettles(i)) /\ WF_vars(GatewaySettles(i))

\* ----------------------------------------------- the parse stage on its own
\* The characters the strings of the generated JSON values are made of.
StringAlphabet == {BT, "json", "a"}
GeneratedStrings == UNION {[1..n -> StringAlphabet] : n \in 0..MaxStrLen}

\* The generated JSON values: a string, an array of one string and an object
\* of one string member, for every generated string.
JsonSamples ==
  {JStr(s) : s \in GeneratedStrings}
    \cup {JArr(<<JStr(s)>>) : s \in GeneratedStrings}
    \cup {JObj(<<Member("vendor_name", JStr(s))>>) : s \in GeneratedStrings}

\* The text wrapped as a json fenced block: opening fence line, the text,
\* closing fence line.
JsonFenced(text) == Fence \o <<"json", LF>> \o text \o <<LF>> \o Fence

ParseInit ==
  /\ inv = [i \in Slots |-> Idle]
  /\ receiptsData = <<>>
  /\ nextUuid = 1
  /\ files = {}
  /\ dirs = {Cwd}
  /\ ensurePc = "idle"
  /\ service = NotConstructed
  /\ apiKey = <<"test-api-key">>
  /\ sample \in JsonSamples
  /\ parsedPlain = <<>>
  /\ parsedFenced = <<>>
  /\ verdict = <<>>
  /\ parsedTagged = <<>>

\* The parse stage applied to the bare text of the sample.
ParsePlain ==
  /\ parsedPlain = <<>>
  /\ parsedPlain' = <<ParseStage(Stringify(sample))>>
  /\ UNCHANGED <<sample, parsedFenced, verdict, parsedTagged>>
  /\ UNCHANGED serviceVars

\* The parse stage applied to the fenced text of the sample.
ParseFenced ==
  /\ parsedFenced = <<>>
  /\ parsedFenced' = <<ParseStage(JsonFenced(Stringify(sample)))>>
  /\ UNCHANGED <<sample, parsedPlain, verdict, parsedTagged>>
  /\ UNCHANGED serviceVars

\* The language tags an opening fence can carry: none, json, another one.
FenceTags == {<<>>, <<"json">>, <<"python">>}

\* The text wrapped in a fenced block whose opening fence has the tag.
TagFenced(tag, text) == Fence \o tag \o <<LF>> \o text \o <<LF>> \o Fence

\* The parse stage applied to the text of the sample in a fence with the
\* given tag.
ParseTagged(tag) ==
  /\ parsedTagged = <<>>
  /\ parsedTagged' = <<[tag |-> tag, result |-> ParseStage(TagFenced(tag, Stringify(sample)))]>>
  /\ UNCHANGED <<sample, parsedPlain, parsedFenced, verdict>>
  /\ UNCHANGED serviceVars

ParseNext ==
  \/ ParsePlain
  \/ ParseFenced
  \/ \E tag \in FenceTags : ParseTagged(tag)

ParseSpec == ParseInit /\ [][ParseNext]_vars

\* ------------------------------------------ validateExtractedData on its own
\* The ways a parsed value can carry each field of the schema: not at all,
\* with the type the validator asks for, or with another type.
DateMembers ==
  {<<>>, <<Member("date", JStr(<<"2024-01-15">>))>>, <<Member("date", JStr(<<"a">>))>>,
   <<Member("date", JNum("4.5"))>>}
CurrencyMembers ==
  {<<>>, <<Member("currency", JStr(USD))>>, <<Member("currency", JStr(<<"U", "S">>))>>,
   <<Member("currency", JStr(<<"INVALID">>))>>, <<Member("currency", JNum("4.5"))>>}
VendorMembers ==
  {<<>>, <<Member("vendor_name", JStr(<<"Test Store">>))>>,
   <<Member("vendor_name", JStr(<<>>))>>, <<Member("vendor_name", JNull)>>}
NamelessItem == JObj(<<Member("item_cost", JNum("4.5"))>>)
CostlessItem == JObj(<<Member("item_name", JStr(<<"Coffee">>))>>)
TextCostItem ==
  JObj(<<Member("item_name", JStr(<<"Coffee">>)), Member("item_cost", JStr(<<"a">>))>>)
ItemLists ==
  {<<>>, <<CoffeeItem>>, <<CoffeeItem, CoffeeItem>>, <<NamelessItem>>, <<CostlessItem>>,
   <<TextCostItem>>, <<CoffeeItem, NamelessItem>>, <<JNull>>, <<CoffeeItem, JNull>>,
   <<NamelessItem, JNull>>, <<JStr(<<"a">>)>>, <<JNum("4.5")>>}
ItemsMembers ==
  {<<>>, <<Member("receipt_items", JStr(<<"a">>))>>, <<Member("receipt_items", CoffeeItem)>>}
    \cup {<<Member("receipt_items", JArr(items))>> : items \in ItemLists}
TaxMembers ==
  {<<>>, <<Member("tax", JNum("1.35"))>>, <<Member("tax", JNum("0"))>>,
   <<Member("tax", JStr(<<"a">>))>>}
TotalMembers ==
  {<<>>, <<Member("total", JNum("14.84"))>>, <<Member("total", JStr(<<"a">>))>>}

\* The parsed values handed to the validator: every combination of the
\* above in one object, and the values that are not objects.
ValidatorSamples ==
  {JObj(d \o c \o v \o its \o t \o tt) :
     d \in DateMembers, c \in CurrencyMembers, v \in VendorMembers,
     its \in ItemsMembers, t \in TaxMembers, tt \in TotalMembers}
    \cup {JNull, JNum("0"), JNum("4.5"), JStr(<<>>), JStr(USD), JArr(<<>>)}

ValidateInit ==
  /\ inv = [i \in Slots |-> Idle]
  /\ receiptsData = <<>>
  /\ nextUuid = 1
  /\ files = {}
  /\ dirs = {Cwd}
  /\ ensurePc = "idle"
  /\ service = NotConstructed
  /\ apiKey = <<"test-api-key">>
  /\ sample \in ValidatorSamples
  /\ parsedPlain = <<>>
  /\ parsedFenced = <<>>
  /\ verdict = <<>>
  /\ parsedTagged = <<>>

\* validateExtractedData applied to the sample.
Validate ==
  /\ verdict = <<>>
  /\ verdict' = <<validateExtractedData(sample)>>
  /\ UNCHANGED <<sample, parsedPlain, parsedFenced, parsedTagged>>
  /\ UNCHANGED serviceVars

ValidateNext == Validate

ValidateSpec == ValidateInit /\ [][ValidateNext]_vars
\* ===================================================================
\* Properties
\* ===================================================================
RECURSIVE JsonEqual(_, _)
\* Deep equality of two JSON values: the same kind, and the same text for
\* a scalar, the same elements in order for an array, the same members in
\* order for an object.
JsonEqual(a, b) ==
  /\ a.k = b.k
  /\ CASE a.k = "arr" ->
            /\ Len(a.v) = Len(b.v)
            /\ \A n \in 1..Len(a.v) : JsonEqual(a.v[n], b.v[n])
       [] a.k = "obj" ->
            /\ Len(a.v) = Len(b.v)
            /\ \A n \in 1..Len(a.v) :
                 a.v[n][1] = b.v[n][1] /\ JsonEqual(a.v[n][2], b.v[n][2])
       [] OTHER -> a.v = b.v

\* Deep equality of two receipts.
ReceiptEqual(a, b) ==
  /\ a.id = b.id
  /\ a.image_url = b.image_url
  /\ JsonEqual(a.date, b.date)
  /\ JsonEqual(a.currency, b.currency)
  /\ JsonEqual(a.vendor_name, b.vendor_name)
  /\ JsonEqual(a.receipt_items, b.receipt_items)
  /\ JsonEqual(a.tax, b.tax)
  /\ JsonEqual(a.total, b.total)

\* The schema as the specification words it: every top-level field present
\* and of its type, a currency of exactly three characters, and every
\* element of receipt_items with a string item_name and a numeric item_cost.
SchemaValid(d) ==
  /\ d.k = "obj"
  /\ Get(d, "date").k = "str"
  /\ Get(d, "currency").k = "str"
  /\ StrLength(Get(d, "currency").v) = 3
  /\ Get(d, "vendor_name").k = "str"
  /\ Get(d, "receipt_items").k = "arr"
  /\ \A n \in 1..Len(Get(d, "receipt_items").v) :
       LET item == Get(d, "receipt_items").v[n]
       IN /\ item.k = "obj"
          /\ Get(item, "item_name").k = "str"
          /\ Get(item, "item_cost").k = "num"
  /\ Get(d, "tax").k = "num"
  /\ Get(d, "total").k = "num"

\* For each reply: the JSON the AI wrote (its body read by JSON.parse as it
\* stands), and whether the parse stage yields a schema-valid value.
AiJson == [r \in 1..Len(AiReplies) |-> JSONParse(AiReplies[r].body)]
ParsesSchemaValid ==
  [r \in 1..Len(AiReplies) |->
     AfterText[r].parsed /\ SchemaValid(AfterText[r].extractedData)]

ReceiptFields == {"date", "currency", "vendor_name", "receipt_items", "tax", "total"}

\* Field f of a receipt.
Field(receipt, f) ==
  CASE f = "date" -> receipt.date
    [] f = "currency" -> receipt.currency
    [] f = "vendor_name" -> receipt.vendor_name
    [] f = "receipt_items" -> receipt.receipt_items
    [] f = "tax" -> receipt.tax
    [] f = "total" -> receipt.total

\* C1: an upload whose declared media type is none of image/jpeg, image/jpg,
\* image/png, image/webp fails with the BadRequestException 'Only .jpg,
\* .jpeg, .png, and .webp files are allowed', and its invocation writes no
\* image, calls the gateway not once and sets no receipt.
C1_UnsupportedTypeRejected ==
  \A i \in Slots :
    (/\ inv[i].pc # "idle"
     /\ inv[i].upload # 0
     /\ Uploads[inv[i].upload].mimetype
          \notin {"image/jpeg", "image/jpg", "image/png", "image/webp"})
    => /\ inv[i].pc = "failed"
       /\ inv[i].fault.class = "BadRequestException"
       /\ inv[i].fault.message = "Only .jpg, .jpeg, .png, and .webp files are allowed"
       /\ inv[i].nWrites = 0
       /\ inv[i].nCalls = 0
       /\ inv[i].nSets = 0
       /\ \A f \in files : f.owner # i

\* C1 witness: a text/plain upload was rejected after another invocation had
\* stored a receipt.
C1_Witness ==
  \E i \in Slots :
    /\ inv[i].pc = "failed"
    /\ inv[i].stage = "Validating"
    /\ inv[i].upload # 0
    /\ Uploads[inv[i].upload].mimetype = "text/plain"
    /\ Len(receiptsData) = 1

\* C2: when the image write succeeds and the reply parses to a schema-valid
\* object, the invocation returns a receipt whose date, currency,
\* vendor_name, receipt_items, tax and total equal the values of the AI's
\* JSON.
C2_FieldsEqualAiJson ==
  \A i \in Slots :
    (/\ inv[i].write = "resolved"
     /\ inv[i].gateway = "resolved"
     /\ ParsesSchemaValid[inv[i].reply])
    => /\ inv[i].pc = "done"
       /\ AiJson[inv[i].reply].ok
       /\ \A f \in ReceiptFields :
            JsonEqual(Field(inv[i].returned[1], f), Get(AiJson[inv[i].reply].v, f))

\* C3: a reply that parses but violates the schema fails with the
\* InternalServerErrorException 'AI model returned incomplete or invalid
\* data', and with no other fault.
C3_SchemaViolationIsAiContent ==
  \A i \in Slots :
    (/\ inv[i].gateway = "resolved"
     /\ AfterText[inv[i].reply].parsed
     /\ ~SchemaValid(AfterText[inv[i].reply].extractedData))
    => /\ inv[i].pc = "failed"
       /\ inv[i].fault.class = "InternalServerErrorException"
       /\ inv[i].fault.message = "AI model returned incomplete or invalid data"

\* C4: a reply that cannot be parsed as JSON after fence stripping fails
\* with the InternalServerErrorException 'AI model returned invalid response
\* format', a fault that is neither the AI-content nor the generic fault and
\* that the outer catch hands on unchanged.
C4_UnparseableIsAiFormat ==
  \A i \in Slots :
    (/\ inv[i].gateway = "resolved"
     /\ ~AfterText[inv[i].reply].parsed)
    => /\ inv[i].pc = "failed"
       /\ inv[i].fault.class = "InternalServerErrorException"
       /\ inv[i].fault.message = "AI model returned invalid response format"
       /\ inv[i].fault # AiContentFault
       /\ inv[i].fault # GenericFault
       /\ inv[i].nSets = 0

\* C4 witness: the reply 'invalid json response' ended an invocation in a
\* fault.
C4_Witness ==
  \E i \in Slots :
    /\ inv[i].pc = "failed"
    /\ inv[i].gateway = "resolved"
    /\ AiReplies[inv[i].reply].body = <<"invalid", SP, "json", SP, "response">>

\* C5: when the gateway call throws or rejects, the invocation fails with
\* the InternalServerErrorException 'Failed to process receipt image' and
\* no receipt of it is in the repository.
C5_GatewayFailureIsGeneric ==
  \A i \in Slots :
    inv[i].gateway = "rejected"
    => /\ inv[i].pc = "failed"
       /\ inv[i].fault.class = "InternalServerErrorException"
       /\ inv[i].fault.message = "Failed to process receipt image"
       /\ inv[i].nSets = 0
       /\ getReceiptById(inv[i].receiptId) = <<>>

\* C5 witness: a gateway call was rejected while the repository held the
\* receipt of another invocation.
C5_Witness ==
  \E i \in Slots :
    /\ inv[i].gateway = "rejected"
    /\ inv[i].pc = "failed"
    /\ Len(receiptsData) = 1

\* C6: when the image write fails, the invocation fails with the
\* InternalServerErrorException 'Failed to process receipt image', the fault
\* of a gateway failure; it never calls the gateway and no receipt of it is
\* in the repository.
C6_WriteFailureIsGeneric ==
  \A i \in Slots :
    inv[i].write = "rejected"
    => /\ inv[i].pc = "failed"
       /\ inv[i].fault.class = "InternalServerErrorException"
       /\ inv[i].fault.message = "Failed to process receipt image"
       /\ \A j \in Slots : inv[j].gateway = "rejected" => inv[j].fault = inv[i].fault
       /\ inv[i].nCalls = 0
       /\ inv[i].gateway = "none"
       /\ inv[i].nSets = 0
       /\ getReceiptById(inv[i].receiptId) = <<>>

\* C6 witness: one invocation failed at its image write and another at its
\* gateway call.
C6_Witness ==
  \E i, j \in Slots :
    /\ inv[i].write = "rejected"
    /\ inv[i].pc = "failed"
    /\ inv[j].gateway = "rejected"

\* C7: for a valid JSON value, the parse stage yields the same structured
\* value on the value's text in a json fenced block as on the bare text.
C7_FencedParsesAsPlain ==
  (Len(parsedPlain) = 1 /\ Len(parsedFenced) = 1)
  => /\ parsedPlain[1].ok
     /\ parsedFenced[1].ok
     /\ JsonEqual(parsedFenced[1].v, parsedPlain[1].v)

\* C7 witness: both texts of an object sample whose string starts with a
\* json fence marker were parsed, the fenced one to an object.
C7_Witness ==
  /\ Len(parsedPlain) = 1
  /\ Len(parsedFenced) = 1
  /\ sample.k = "obj"
  /\ sample.v[1][2].v = Fence \o <<"json">>
  /\ parsedFenced[1].ok
  /\ parsedFenced[1].v.k = "obj"

\* C8: once extractReceiptDetails has returned r, getReceiptById(r.id)
\* returns a record deep-equal to r.
C8_LookupReturnsReceipt ==
  \A i \in Slots :
    inv[i].pc = "done"
    => /\ Len(getReceiptById(inv[i].returned[1].id)) = 1
       /\ ReceiptEqual(getReceiptById(inv[i].returned[1].id)[1], inv[i].returned[1])

\* C8 witness: a returned receipt is looked up after a later invocation has
\* stored its own.
C8_Witness ==
  \E i \in Slots :
    /\ inv[i].pc = "done"
    /\ Len(receiptsData) = 2
    /\ receiptsData[1].key = inv[i].returned[1].id

\* C9: every returned receipt has a non-empty id, no two invocations are
\* assigned the same id, and the repository holds one receipt per
\* successful invocation, each under a key of its own: no insert overwrote
\* a receipt.
C9_IdsUnique ==
  /\ \A i \in Slots : inv[i].pc = "done" => StrLength(inv[i].returned[1].id) > 0
  /\ \A i, j \in Slots :
       (i # j /\ inv[i].receiptId # <<>> /\ inv[j].receiptId # <<>>)
       => inv[i].receiptId # inv[j].receiptId
  /\ \A m, n \in 1..Len(receiptsData) :
       m # n => receiptsData[m].key # receiptsData[n].key
  /\ Len(receiptsData) = Cardinality({i \in Slots : inv[i].pc = "done"})

\* C9 witness: two invocations with the same upload both returned a receipt.
C9_Witness ==
  \E i, j \in Slots :
    /\ i # j
    /\ inv[i].pc = "done"
    /\ inv[j].pc = "done"
    /\ inv[i].upload = inv[j].upload

\* C10: for a successful extraction, image_url is '/uploads/' followed by
\* '<id>_<originalname>', id the receipt's own, and that name is the name of
\* the file written in the invocation, a file of the uploads directory.
C10_ImageUrlNamesWrittenFile ==
  \A i \in Slots :
    inv[i].pc = "done"
    => LET name == inv[i].returned[1].id \o <<"_">> \o Uploads[inv[i].upload].originalname
       IN /\ inv[i].returned[1].image_url = <<"/", "uploads", "/">> \o name
          /\ FilePath(inv[i].fileName) = Append(uploadsDir, name)
\* C11: validateExtractedData returns true exactly for the values with a
\* string date, a string currency of length 3, a string vendor_name, an
\* array receipt_items whose every element has a string item_name and a
\* numeric item_cost, a numeric tax and a numeric total, and returns false
\* for every other value.
C11_ValidatorDecidesSchema ==
  verdict # <<>> =>
    verdict[1] = (IF SchemaValid(sample) THEN "true" ELSE "false")

\* The invocations that returned a receipt.
Succeeded == {i \in Slots : inv[i].pc = "done"}

\* C12: getAllReceipts is empty while no invocation has succeeded, and at
\* any time it holds exactly the receipts the successful invocations
\* returned: each of them once, and nothing else.
C12_AllReceiptsAreTheSuccesses ==
  LET all == getAllReceipts
  IN /\ Len(all) = Cardinality(Succeeded)
     /\ \A i \in Succeeded :
          \E n \in 1..Len(all) :
            /\ ReceiptEqual(all[n], inv[i].returned[1])
            /\ \A m \in 1..Len(all) : m # n => all[m].id # inv[i].returned[1].id
     /\ \A n \in 1..Len(all) : \E i \in Succeeded : all[n].id = inv[i].returned[1].id

\* One invocation succeeded and another failed after the AI replied with
\* text that parses: the listing holds the one receipt.
C12_Witness ==
  \E i, j \in Slots :
    /\ inv[i].pc = "done"
    /\ inv[j].pc = "failed" /\ inv[j].stage = "ValidatingSchema"
    /\ Len(getAllReceipts) = 1
    /\ ReceiptEqual(getAllReceipts[1], inv[i].returned[1])

\* C13: getReceiptById returns undefined for every identifier that is not
\* the identifier of a successful invocation: on the fresh service, for an
\* identifier never handed out, and for the identifier of an invocation
\* that failed after uuidv4 gave it one.
C13_UnknownIdIsUndefined ==
  \A id \in LookupIds :
    \/ Len(getReceiptById(id)) = 0
    \/ \E i \in Slots : inv[i].pc = "done" /\ inv[i].receiptId = id

\* An invocation failed after it got its identifier, while another one
\* succeeded: the failed one's identifier is looked up and not found.
C13_Witness ==
  \E i, j \in Slots :
    /\ inv[i].pc = "done"
    /\ inv[j].pc = "failed" /\ inv[j].receiptId \in LookupIds
    /\ Len(getReceiptById(inv[j].receiptId)) = 0
    /\ Len(getReceiptById(<<"non-existent-id">>)) = 0

\* C14: every step leaves each receipt of the repository in place with
\* its key and all its fields, so getReceiptById of its id returns the same
\* record after the step; the repository grows by exactly one receipt in a
\* step in which an invocation succeeds and not at all in any other step.
C14_RepositoryWriteOnce ==
  [][/\ Len(receiptsData') >= Len(receiptsData)
     /\ \A n \in 1..Len(receiptsData) :
          /\ receiptsData'[n].key = receiptsData[n].key
          /\ ReceiptEqual(receiptsData'[n].value, receiptsData[n].value)
          /\ Len(MapGet(receiptsData', receiptsData[n].key)) = 1
          /\ ReceiptEqual(MapGet(receiptsData', receiptsData[n].key)[1],
                          receiptsData[n].value)
     /\ Len(receiptsData') - Len(receiptsData)
          = Cardinality({i \in Slots : inv[i].pc # "done" /\ inv'[i].pc = "done"})
     /\ \A i \in Slots : inv'[i].nSets <= 1]_vars

\* A second extraction succeeded while the receipt of the first was in
\* the repository, and both are there.
C14_Witness ==
  /\ Len(receiptsData) = 2
  /\ \A i \in Slots : i <= 2 => inv[i].pc = "done" /\ inv[i].nSets = 1
  /\ \A i \in Slots : i <= 2 =>
       /\ Len(getReceiptById(inv[i].receiptId)) = 1
       /\ ReceiptEqual(getReceiptById(inv[i].receiptId)[1], inv[i].returned[1])

\* The names of the members of a JSON object.
MemberNames(obj) == {obj.v[n][1][1] : n \in 1..Len(obj.v)}

\* A receipt of the outbound shape: the eight fields, and line items with
\* item_name and item_cost and nothing else.
ExactShape(receipt) ==
  /\ DOMAIN receipt = {"id", "date", "currency", "vendor_name", "receipt_items",
                       "tax", "total", "image_url"}
  /\ receipt.receipt_items.k = "arr"
  /\ \A n \in 1..Len(receipt.receipt_items.v) :
       /\ receipt.receipt_items.v[n].k = "obj"
       /\ MemberNames(receipt.receipt_items.v[n]) = {"item_name", "item_cost"}

\* C15: the receipt a successful extraction returns, and the one it
\* stores, has exactly the eight fields, and every element of its
\* receipt_items has exactly item_name and item_cost, whatever further
\* members the AI's JSON has.
C15_ResponseHasExactShape ==
  \A i \in Succeeded :
    /\ ExactShape(inv[i].returned[1])
    /\ \A n \in 1..Len(getAllReceipts) : ExactShape(getAllReceipts[n])

\* C16: with GEMINI_API_KEY unset or empty the service is never ready: the
\* constructor throws 'GEMINI_API_KEY environment variable is required',
\* and then there is no invocation, no write, no gateway call, no receipt
\* and no step of ensureUploadsDir; and no invocation of a constructed
\* service fails with the credential's message.
C16_MissingKeyFailsConstruction ==
  /\ (apiKey = <<>> \/ apiKey = <<"">>) =>
       /\ service # Ready
       /\ service.state = "failed" =>
            service.error = "GEMINI_API_KEY environment variable is required"
       /\ \A i \in Slots : inv[i] = Idle
       /\ receiptsData = <<>> /\ files = {} /\ nextUuid = 1
       /\ ensurePc = "idle"
  /\ \A i \in Slots :
       inv[i].fault.message # "GEMINI_API_KEY environment variable is required"

\* The constructor ran without the key and threw.
C16_Witness ==
  /\ apiKey = <<>>
  /\ service = ConstructorThrew("GEMINI_API_KEY environment variable is required")

C18_AcceptedTypesAreTheFour ==
  \A i \in Slots :
    (inv[i].pc # "idle" /\ inv[i].upload # 0 /\ inv[i].stage # "Endpoint")
    => LET listed == Uploads[inv[i].upload].mimetype
                       \in {"image/jpeg", "image/jpg", "image/png", "image/webp"}
       IN /\ listed <=> inv[i].nWrites = 1
          /\ listed <=> inv[i].stage # "Validating"
          /\ listed <=> inv[i].fault # ClientFault

\* An image/jpg upload went on to the image write while a text/plain
\* upload stopped at the check.
C18_Witness ==
  \E i, j \in Slots :
    /\ inv[i].upload # 0 /\ Uploads[inv[i].upload].mimetype = "image/jpg"
    /\ inv[i].pc = "writing" /\ inv[i].nWrites = 1
    /\ inv[j].upload # 0 /\ Uploads[inv[j].upload].mimetype = "text/plain"
    /\ inv[j].stage = "Validating" /\ inv[j].pc = "failed"

\* The fault the specification attributes to a failure at each stage.
FaultOfStage(stage) ==
  CASE stage = "Validating" -> ClientFault
    [] stage = "Storing" -> GenericFault
    [] stage = "Inferring" -> GenericFault
    [] stage = "Sanitizing" -> AiFormatFault
    [] stage = "ValidatingSchema" -> AiContentFault

\* The stages in their order; building the prompt is part of the step from
\* Storing to Inferring and the insert part of the step to Done.
StageRank(stage) ==
  CASE stage = "Validating" -> 1
    [] stage = "Storing" -> 2
    [] stage = "Inferring" -> 3
    [] stage = "Sanitizing" -> 4
    [] stage = "ValidatingSchema" -> 5
    [] stage = "Done" -> 6

\* C19: an invocation of extractReceiptDetails is at a stage only after
\* the stages before it went through (the image written before Inferring,
\* the gateway's reply there before Sanitizing, the receipt stored exactly
\* at Done); it ends Done with no fault or failed with one fault, and a
\* failed invocation has the fault of the stage it failed at: the client
\* fault at Validating, the generic fault at Storing and Inferring, the
\* AI-format fault at Sanitizing, the AI-content fault at Validating-Schema.
C19_FaultFollowsStage ==
  \A i \in Slots :
    (inv[i].pc # "idle" /\ inv[i].stage # "Endpoint")
    => /\ StageRank(inv[i].stage) >= 3 <=> inv[i].write = "resolved"
       /\ StageRank(inv[i].stage) >= 4 <=> inv[i].gateway = "resolved"
       /\ StageRank(inv[i].stage) = 6 <=> inv[i].nSets = 1
       /\ StageRank(inv[i].stage) = 6 <=> inv[i].pc = "done"
       /\ inv[i].pc = "failed" <=> inv[i].fault # NoFault
       /\ inv[i].pc = "failed" => inv[i].fault = FaultOfStage(inv[i].stage)

\* C20: in every step each invocation has made at most one image write
\* and at most one gateway call, an invocation whose write or gateway call
\* failed makes no write, call or insert from then on, and an invocation
\* that has ended stays as it is.
C20_NoRetry ==
  [][\A i \in Slots :
       /\ inv'[i].nWrites <= 1 /\ inv'[i].nCalls <= 1 /\ inv'[i].nSets <= 1
       /\ (inv[i].write = "rejected" \/ inv[i].gateway = "rejected")
            => /\ inv'[i].nWrites = inv[i].nWrites
               /\ inv'[i].nCalls = inv[i].nCalls
               /\ inv'[i].nSets = 0
               /\ \A n \in 1..Len(receiptsData') : receiptsData'[n].key # inv[i].receiptId
       /\ inv[i].write = "rejected" => inv'[i].nCalls = 0
       /\ inv[i].pc \in {"failed", "done"} => inv'[i].pc = inv[i].pc]_vars

\* One invocation's image write failed and another's gateway call failed,
\* each after its single attempt.
C20_Witness ==
  \E i, j \in Slots :
    /\ inv[i].pc = "failed" /\ inv[i].write = "rejected"
    /\ inv[i].nWrites = 1 /\ inv[i].nCalls = 0
    /\ inv[j].pc = "failed" /\ inv[j].gateway = "rejected"
    /\ inv[j].nWrites = 1 /\ inv[j].nCalls = 1 /\ inv[j].nSets = 0

\* The paths of the files on disk.
FilePaths(fs) == {f.path : f \in fs}

\* C21: no step removes a file from disk; after every step an invocation
\* whose gateway call was made has its image write resolved before, and an
\* invocation that failed at Inferring, Sanitizing or Validating-Schema has
\* the file it wrote on disk and no receipt of its id or with its image
\* reference in the repository.
C21_ImageKeptOnLateFailure ==
  [][/\ FilePaths(files) \subseteq FilePaths(files')
     /\ \A i \in Slots :
          /\ inv'[i].nCalls >= 1 => inv'[i].write = "resolved"
          /\ (/\ inv'[i].pc = "failed"
              /\ inv'[i].stage \in {"Inferring", "Sanitizing", "ValidatingSchema"})
             => /\ FilePath(inv'[i].fileName) \in FilePaths(files')
                /\ \A n \in 1..Len(receiptsData') :
                     /\ receiptsData'[n].key # inv'[i].receiptId
                     /\ receiptsData'[n].value.image_url # ImageUrl(inv'[i].fileName)]_vars

\* Two invocations failed after their image was written, one at Inferring
\* and one at Validating-Schema: both files are on disk and the repository
\* is empty.
C21_Witness ==
  \E i, j \in Slots :
    /\ inv[i].pc = "failed" /\ inv[i].stage = "Inferring"
    /\ inv[j].pc = "failed" /\ inv[j].stage = "ValidatingSchema"
    /\ FilePath(inv[i].fileName) \in FilePaths(files)
    /\ FilePath(inv[j].fileName) \in FilePaths(files)
    /\ receiptsData = <<>>

\* C22: whatever the interleaving, every invocation whose image write
\* resolved has its own file on disk, at a path no other invocation wrote
\* to, and the repository holds exactly one receipt per invocation that
\* reached Done, under its own id, with the fields its own AI reply parsed
\* to and the image reference of its own upload.
C22_InvocationsDoNotInterfere ==
  /\ \A i \in Slots :
       inv[i].write = "resolved"
       => /\ [path |-> FilePath(inv[i].fileName), owner |-> i] \in files
          /\ \A j \in Slots :
               (j # i /\ inv[j].write = "resolved")
               => FilePath(inv[j].fileName) # FilePath(inv[i].fileName)
  /\ Len(receiptsData) = Cardinality(Succeeded)
  /\ \A i \in Succeeded :
       LET got == getReceiptById(inv[i].receiptId)
       IN /\ Len(got) = 1
          /\ got[1].id = inv[i].receiptId
          /\ got[1].image_url = ImageUrl(inv[i].fileName)
          /\ \A f \in ReceiptFields :
               JsonEqual(Field(got[1], f),
                         Get(AfterText[inv[i].reply].extractedData, f))

\* C23: an invocation issues its image write only once ensureUploadsDir
\* has completed, so at every write the uploads directory has been checked
\* and, if it was absent, created.
C23_EnsureBeforeWrite ==
  \A i \in Slots :
    inv[i].nWrites >= 1 => ensurePc = "done" /\ uploadsDir \in dirs

\* C24: whatever the original file name, an invocation that reached the
\* image write writes to the direct child of the uploads directory named
\* by its identifier, an underscore and the original name, and no two
\* invocations write to the same path, uploads of one original name
\* included.
C24_WritesFlatUnderOwnName ==
  \A i \in Slots :
    inv[i].nWrites >= 1
    => /\ Dirname(FilePath(inv[i].fileName)) = uploadsDir
       /\ FilePath(inv[i].fileName)
            = Append(uploadsDir,
                     inv[i].receiptId \o <<"_">> \o Uploads[inv[i].upload].originalname)
       /\ \A j \in Slots :
            (j # i /\ inv[j].nWrites >= 1)
            => FilePath(inv[j].fileName) # FilePath(inv[i].fileName)

\* C25: the text of a JSON value wrapped in an opening fence, bare or with
\* any language tag, and a closing fence parses, and it parses to that
\* JSON value, also when a string of the value holds a fence marker.
C25_FenceStrippedOnlyAtEnds ==
  parsedTagged # <<>> =>
    /\ parsedTagged[1].result.ok
    /\ JsonEqual(parsedTagged[1].result.v, sample)

\* C26: a step in which an invocation ends in a fault, of whatever kind
\* and at the endpoint or in the service, leaves the repository as it was:
\* the same receipts under the same keys, so getAllReceipts and
\* getReceiptById give what they gave before.  The repository changes only
\* in a step in which an invocation ends Done, and a failed invocation has
\* made no insert and has no receipt under its id.
C26_FaultLeavesRepository ==
  [][/\ \A i \in Slots :
          (inv[i].pc # "failed" /\ inv'[i].pc = "failed")
          => /\ Len(receiptsData') = Len(receiptsData)
             /\ \A n \in 1..Len(receiptsData) :
                  /\ receiptsData'[n].key = receiptsData[n].key
                  /\ ReceiptEqual(receiptsData'[n].value, receiptsData[n].value)
             /\ \A id \in LookupIds :
                  Len(MapGet(receiptsData', id)) = Len(MapGet(receiptsData, id))
     /\ Len(receiptsData') # Len(receiptsData)
          => \E i \in Slots : inv[i].pc = "inferring" /\ inv'[i].pc = "done"
     /\ \A i \in Slots :
          inv'[i].pc = "failed"
          => /\ inv'[i].nSets = 0
             /\ inv'[i].receiptId # <<>> => Len(MapGet(receiptsData', inv'[i].receiptId)) = 0]_vars

\* An invocation ended in the AI-format fault while the repository held
\* the receipt of an earlier one, and it holds that one receipt.
C26_Witness ==
  \E i, j \in Slots :
    /\ inv[i].pc = "done"
    /\ inv[j].pc = "failed" /\ inv[j].fault = AiFormatFault
    /\ Len(receiptsData) = 1
    /\ receiptsData[1].key = inv[i].receiptId

\* C27: every receipt in the repository is the receipt of an invocation
\* whose image write resolved: its key is its id, its image_url is
\* /uploads/ followed by that invocation's file name, the name begins with
\* the id, and the write to the path of that name resolved, so a file is
\* there.
C27_StoredReceiptHasWrittenImage ==
  \A n \in 1..Len(receiptsData) :
    \E i \in Slots :
      LET receipt == receiptsData[n].value
          name == inv[i].fileName
      IN /\ receiptsData[n].key = inv[i].receiptId
         /\ receipt.id = inv[i].receiptId
         /\ receipt.image_url = <<"/", "uploads", "/">> \o name
         /\ SubSeq(name, 1, Len(receipt.id) + 1) = receipt.id \o <<"_">>
         /\ inv[i].write = "resolved"
         /\ inv[i].nWrites = 1
         /\ PathJoin(uploadsDir, name) \in FilePaths(files)

\* A receipt is in the repository while another invocation's image write
\* failed and left no receipt.
C27_Witness ==
  \E i, j \in Slots :
    /\ inv[i].pc = "done" /\ Len(getReceiptById(inv[i].receiptId)) = 1
    /\ FilePath(inv[i].fileName) \in FilePaths(files)
    /\ inv[j].pc = "failed" /\ inv[j].write = "rejected"
    /\ Len(receiptsData) = 1

\* C28: when every image write and every gateway call eventually returns
\* or fails, every invocation that has started ends Done or Failed; and an
\* invocation waiting for the gateway leaves that wait only by the
\* gateway's call returning or failing, so it never ends while the call
\* does not return.
C28_InvocationTerminates ==
  /\ \A i \in Slots :
       (inv[i].pc \in {"writing", "inferring"}) ~> (inv[i].pc \in {"done", "failed"})
  /\ [][\A i \in Slots :
          (inv[i].pc = "inferring" /\ inv'[i].pc # "inferring")
          => /\ inv[i].gateway = "pending"
             /\ inv'[i].gateway \in {"resolved", "rejected"}
             /\ inv'[i].pc \in {"done", "failed"}]_vars

\* Every invocation has ended, one Done after its write and its gateway
\* call returned.
C28_Witness ==
  /\ \A i \in Slots : inv[i].pc \in {"done", "failed"}
  /\ \E i \in Slots :
       inv[i].pc = "done" /\ inv[i].write = "resolved" /\ inv[i].gateway = "resolved"
  /\ \E i \in Slots : inv[i].pc = "failed" /\ inv[i].gateway = "rejected"

====
